---- MODULE Spec2Model ----
(***************************************************************************)
(* Model of Search.__call__ in modules/howtos/examples/search.py: the      *)
(* sequence of client-library calls the method issues, its local           *)
(* variables, its one try/except block and what it prints and logs.        *)
(*                                                                         *)
(* The client library and the search service are the environment.  Every   *)
(* external call either returns or raises; what a search returns follows   *)
(* the prose of the file itself (option table, the note on SearchMetaData  *)
(* errors).                                                                *)
(*                                                                         *)
(* Line 64 of the file lacks the closing parenthesis of print(...); the    *)
(* method is modelled with the statement closed where line 64 ends, the    *)
(* only reading under which it has any behaviour at all.                   *)
(***************************************************************************)
EXTENDS Integers, Sequences, FiniteSets, TLC

VARIABLES
    pc,               \* position in Search.__call__
    exc,              \* exception in flight ("none" when there is none)
    calls,            \* external calls issued so far, in order
    out,              \* what print() has written, in order
    logged,           \* number of logging.error calls
    cluster,          \* local: "unbound" or "connected"
    bucket,           \* local: "unbound" or the bucket name
    collection,       \* local: "unbound" or the collection name
    result,           \* local `result`
    search_result,    \* local `search_result`
    mutation_result,  \* local `mutation_result`: <<>> or <<token>>
    mutation_state,   \* local `mutation_state`: <<>> or <<set of tokens>>
    rowpos,           \* rows of the current result already iterated
    binding,          \* for each local, the snippet that assigned it
    reads,            \* which snippet read which local, and who had assigned it
    hitCount,         \* environment: hits each index holds for the queries used
    failed,           \* environment: index partitions that fail while streaming
    total_rows_type   \* environment: type of the value total_rows() returns

vars == <<pc, exc, calls, out, logged, cluster, bucket, collection, result,
          search_result, mutation_result, mutation_state, rowpos, binding,
          reads, hitCount, failed, total_rows_type>>

(***************************************************************************)
(* Bounds of the environment.                                              *)
(***************************************************************************)
MaxHits == 8          \* hits of index "index" for QueryStringQuery("query")
MaxPrefixHits == 2    \* hits of index "my-index-name" for the prefix query
NumPartitions == 2    \* partitions of a search index
MaxSeq == 2           \* sequence numbers a mutation token may carry

(***************************************************************************)
(* Literals of the method.                                                 *)
(***************************************************************************)
Skip == 3
Limit == 4
FacetSize == 5

Indexes == {"index", "my-index-name"}

Locals == {"cluster", "bucket", "collection", "result", "search_result",
           "mutation_result", "mutation_state"}

\* What an external call can do: return, or raise CouchbaseException (or a
\* subclass), or raise something that is not a CouchbaseException.
Raises == {"CouchbaseException", "Other"}
Outcomes == {"ok"} \cup Raises

\* Sets of index partitions that may be missing from a response that
\* nevertheless came back: any set but all of them.
FailSets == SUBSET (0 .. NumPartitions - 1) \ {0 .. NumPartitions - 1}

Tokens == [key : {"key"}, seq : 1 .. MaxSeq]

(***************************************************************************)
(* SearchOptions: None is -1 for numbers and <<>> for everything else.     *)
(***************************************************************************)
SearchOptions ==
    [skip |-> -1, limit |-> -1, fields |-> <<>>, consistent_with |-> <<>>,
     highlight_style |-> "", highlight_fields |-> <<>>, sort |-> <<>>,
     facets |-> <<>>]

SqueryOptions == [SearchOptions EXCEPT !.fields = <<"field-1">>]

\* Variant of LimitOptions with the two numbers exchanged.
LimitSwappedOptions == [SearchOptions EXCEPT !.skip = Limit, !.limit = Skip]
LimitOptions == [SearchOptions EXCEPT !.skip = Skip, !.limit = Limit]

RyowOptions(state) == [SearchOptions EXCEPT !.consistent_with = <<state>>]

HighlightOptions ==
    [SearchOptions EXCEPT !.highlight_style = "HTML",
                          !.highlight_fields = <<"field1", "field2">>]

SortOptions == [SearchOptions EXCEPT !.sort = <<"SortScore", "SortField:field">>]

FacetsOptions ==
    [SearchOptions EXCEPT !.facets = <<[name |-> "categories",
                                        field |-> "category",
                                        size |-> FacetSize]>>]

FieldsOptions == [SearchOptions EXCEPT !.fields = <<"field1", "field2">>]

(***************************************************************************)
(* The search service, as the file describes it.                           *)
(***************************************************************************)
RECURSIVE Drop(_, _)
Drop(s, k) == IF k <= 0 \/ s = <<>> THEN s ELSE Drop(Tail(s), k - 1)

RECURSIVE Take(_, _)
Take(s, k) == IF k <= 0 \/ s = <<>> THEN <<>> ELSE <<Head(s)>> \o Take(Tail(s), k - 1)

\* The ordered hit list of a query: hit i is the i-th best match.
IndexHits(index) == [i \in 1 .. hitCount[index] |-> i]

\* Hits that are still delivered when the partitions in F have failed.
Surviving(hits, F) == SelectSeq(hits, LAMBDA h : (h % NumPartitions) \notin F)

\* skip(int): "skip the first N hits"; limit(int): "limit the number of hits".
ApplySkipLimit(hits, opts) ==
    LET skipped == IF opts.skip >= 0 THEN Drop(hits, opts.skip) ELSE hits
    IN  IF opts.limit >= 0 THEN Take(skipped, opts.limit) ELSE skipped

\* A response whose initial part came back: rows, facets and metadata.
SearchResponse(site, index, opts, F) ==
    [site   |-> site,
     rows   |-> ApplySkipLimit(Surviving(IndexHits(index), F), opts),
     facets |-> [i \in 1 .. Len(opts.facets) |-> opts.facets[i].name],
     errors |-> F,
     total  |-> Len(Surviving(IndexHits(index), F))]

NoResult == [site |-> "unbound", rows |-> <<>>, facets |-> <<>>, errors |-> {},
             total |-> 0]

(***************************************************************************)
(* Bookkeeping shared by the statements.                                   *)
(***************************************************************************)
Call(op, recv, site, index, query, opts, outcome) ==
    [op |-> op, recv |-> recv, site |-> site, index |-> index, query |-> query,
     opts |-> opts, outcome |-> outcome]

Plain(op, recv, site, outcome) == Call(op, recv, site, "", "", SearchOptions, outcome)

ReadsOf(site, names) ==
    {[reader |-> site, var |-> v, producer |-> binding[v]] : v \in names}

Init ==
    /\ pc = "connect"
    /\ exc = "none"
    /\ calls = <<>>
    /\ out = <<>>
    /\ logged = 0
    /\ cluster = "unbound"
    /\ bucket = "unbound"
    /\ collection = "unbound"
    /\ result = NoResult
    /\ search_result = NoResult
    /\ mutation_result = <<>>
    /\ mutation_state = <<>>
    /\ rowpos = 0
    /\ binding = [v \in Locals |-> "unbound"]
    /\ reads = {}
    /\ hitCount \in {h \in [Indexes -> 0 .. MaxHits] :
                          h["my-index-name"] <= MaxPrefixHits}
    /\ failed \in FailSets
    /\ total_rows_type \in {"int", "str"}

(***************************************************************************)
(* cluster.search_query(index, query, opts), assigned to `target` when it  *)
(* returns.  `uses` are the locals the statement reads; a raise leaves the *)
(* target as it was and moves to `failpc`.                                 *)
(***************************************************************************)
search_query(site, index, query, opts, target, uses, okpc, failpc) ==
    \E o \in Outcomes :
        /\ calls' = Append(calls, Call("search_query", "cluster", site, index,
                                       query, opts, o))
        /\ reads' = reads \cup ReadsOf(site, uses)
        /\ IF o = "ok"
           THEN /\ result' = IF target = "result"
                             THEN SearchResponse(site, index, opts, failed) ELSE result
                /\ search_result' = IF target = "search_result"
                                    THEN SearchResponse(site, index, opts, failed)
                                    ELSE search_result
                /\ binding' = [binding EXCEPT ![target] = site]
                /\ pc' = okpc
                /\ exc' = exc
           ELSE /\ UNCHANGED <<result, search_result, binding>>
                /\ pc' = failpc
                /\ exc' = o
        /\ rowpos' = 0
        /\ UNCHANGED <<out, logged, cluster, bucket, collection, mutation_result,
                       mutation_state, hitCount, failed, total_rows_type>>

(***************************************************************************)
(* Lines 43-45: connect, open the bucket, take the default collection.     *)
(***************************************************************************)
\* Variant of Connect that goes on to the first search with no bucket opened.
ConnectWithoutBucket ==
    /\ pc = "connect"
    /\ \E o \in Outcomes :
        /\ calls' = Append(calls, Plain("connect", "Cluster", "setup", o))
        /\ IF o = "ok"
           THEN /\ cluster' = "connected"
                /\ binding' = [binding EXCEPT !["cluster"] = "setup"]
                /\ pc' = "simple"
                /\ exc' = exc
           ELSE /\ UNCHANGED <<cluster, binding>>
                /\ pc' = "raised"
                /\ exc' = o
    /\ UNCHANGED <<out, logged, bucket, collection, result, search_result,
                   mutation_result, mutation_state, rowpos, reads, hitCount,
                   failed, total_rows_type>>

Connect ==
    /\ pc = "connect"
    /\ \E o \in Outcomes :
        /\ calls' = Append(calls, Plain("connect", "Cluster", "setup", o))
        /\ IF o = "ok"
           THEN /\ cluster' = "connected"
                /\ binding' = [binding EXCEPT !["cluster"] = "setup"]
                /\ pc' = "bucket"
                /\ exc' = exc
           ELSE /\ UNCHANGED <<cluster, binding>>
                /\ pc' = "raised"
                /\ exc' = o
    /\ UNCHANGED <<out, logged, bucket, collection, result, search_result,
                   mutation_result, mutation_state, rowpos, reads, hitCount,
                   failed, total_rows_type>>

Bucket ==
    /\ pc = "bucket"
    /\ \E o \in Outcomes :
        /\ calls' = Append(calls, Plain("bucket", "cluster", "setup", o))
        /\ IF o = "ok"
           THEN /\ bucket' = "travel-sample"
                /\ binding' = [binding EXCEPT !["bucket"] = "setup"]
                /\ pc' = "default_collection"
                /\ exc' = exc
           ELSE /\ UNCHANGED <<bucket, binding>>
                /\ pc' = "raised"
                /\ exc' = o
    /\ reads' = reads \cup ReadsOf("setup", {"cluster"})
    /\ UNCHANGED <<out, logged, cluster, collection, result, search_result,
                   mutation_result, mutation_state, rowpos, hitCount,
                   failed, total_rows_type>>

DefaultCollection ==
    /\ pc = "default_collection"
    /\ \E o \in Outcomes :
        /\ calls' = Append(calls, Plain("default_collection", "bucket", "setup", o))
        /\ IF o = "ok"
           THEN /\ collection' = "_default"
                /\ binding' = [binding EXCEPT !["collection"] = "setup"]
                /\ pc' = "simple"
                /\ exc' = exc
           ELSE /\ UNCHANGED <<collection, binding>>
                /\ pc' = "raised"
                /\ exc' = o
    /\ reads' = reads \cup ReadsOf("setup", {"bucket"})
    /\ UNCHANGED <<out, logged, cluster, bucket, result, search_result,
                   mutation_result, mutation_state, rowpos, hitCount,
                   failed, total_rows_type>>

(***************************************************************************)
(* tag::simple, lines 60-68.  Everything from the search to the last print *)
(* is inside the try; a raise there goes to the except clause.             *)
(***************************************************************************)
\* Variant of SimpleQuery that raises CouchbaseException inside the try
\* when the metadata of the response lists failed partitions.
SimpleQueryRaisingOnErrors ==
    /\ pc = "simple"
    /\ \E o \in Outcomes :
        /\ calls' = Append(calls, Call("search_query", "cluster", "simple", "index",
                                       "QueryStringQuery:query", SearchOptions, o))
        /\ reads' = reads \cup ReadsOf("simple", {"cluster"})
        /\ IF o = "ok"
           THEN /\ result' = SearchResponse("simple", "index", SearchOptions, failed)
                /\ binding' = [binding EXCEPT !["result"] = "simple"]
                /\ pc' = IF failed = {} THEN "simple_rows" ELSE "simple_except"
                /\ exc' = IF failed = {} THEN exc ELSE "CouchbaseException"
           ELSE /\ UNCHANGED <<result, binding>>
                /\ pc' = "simple_except"
                /\ exc' = o
    /\ rowpos' = 0
    /\ UNCHANGED <<out, logged, cluster, bucket, collection, search_result,
                   mutation_result, mutation_state, hitCount, failed,
                   total_rows_type>>

SimpleQuery ==
    /\ pc = "simple"
    /\ search_query("simple", "index", "QueryStringQuery:query", SearchOptions,
                    "result", {"cluster"}, "simple_rows", "simple_except")

\* Line 63-64: the for statement asks result.rows() for the next row, and
\* the body prints it.
SimpleRow ==
    /\ pc = "simple_rows"
    /\ reads' = reads \cup ReadsOf("simple", {"result"})
    /\ \/ /\ rowpos < Len(result.rows)
          /\ calls' = Append(calls, Plain("rows_next", "result", "simple", "ok"))
          /\ rowpos' = rowpos + 1
          /\ out' = Append(out, [site |-> "simple", text |-> "Found row"])
          /\ pc' = "simple_total"
          /\ exc' = exc
       \/ /\ rowpos = Len(result.rows)
          /\ calls' = Append(calls, Plain("rows_next", "result", "simple", "stop"))
          /\ pc' = "squery"
          /\ UNCHANGED <<rowpos, out, exc>>
       \/ \E e \in Raises :
          /\ calls' = Append(calls, Plain("rows_next", "result", "simple", e))
          /\ pc' = "simple_except"
          /\ exc' = e
          /\ UNCHANGED <<rowpos, out>>
    /\ UNCHANGED <<logged, cluster, bucket, collection, result, search_result,
                   mutation_result, mutation_state, binding, hitCount,
                   failed, total_rows_type>>

\* Lines 65-66: read the total from the metadata, concatenate it to a str
\* and print.  str + x raises TypeError unless x is a str.
SimpleTotal ==
    /\ pc = "simple_total"
    /\ reads' = reads \cup ReadsOf("simple", {"result"})
    /\ \E o \in Outcomes :
        /\ calls' = Append(calls, Plain("total_rows", "result", "simple", o))
        /\ IF o # "ok"
           THEN /\ pc' = "simple_except"
                /\ exc' = o
                /\ out' = out
           ELSE IF total_rows_type # "str"
           THEN /\ pc' = "simple_except"
                /\ exc' = "TypeError"
                /\ out' = out
           ELSE /\ pc' = "simple_rows"
                /\ exc' = exc
                /\ out' = Append(out, [site |-> "simple",
                                       text |-> "Reported total rows"])
    /\ UNCHANGED <<logged, cluster, bucket, collection, result, search_result,
                   mutation_result, mutation_state, rowpos, binding, hitCount,
                   failed, total_rows_type>>

\* Variants of SimpleExcept: one logs and raises again, one runs the search
\* again after logging, one catches every exception.
SimpleExceptLogAndReraise ==
    /\ pc = "simple_except"
    /\ logged' = IF exc = "CouchbaseException" THEN logged + 1 ELSE logged
    /\ pc' = "raised"
    /\ UNCHANGED <<exc, calls, out, cluster, bucket, collection, result,
                   search_result, mutation_result, mutation_state, rowpos,
                   binding, reads, hitCount, failed, total_rows_type>>

SimpleExceptRetry ==
    /\ pc = "simple_except"
    /\ IF exc = "CouchbaseException"
       THEN /\ logged' = logged + 1
            /\ exc' = "none"
            /\ pc' = IF logged = 0 THEN "simple" ELSE "squery"
       ELSE /\ pc' = "raised"
            /\ UNCHANGED <<logged, exc>>
    /\ UNCHANGED <<calls, out, cluster, bucket, collection, result,
                   search_result, mutation_result, mutation_state, rowpos,
                   binding, reads, hitCount, failed, total_rows_type>>

SimpleExceptCatchAll ==
    /\ pc = "simple_except"
    /\ logged' = logged + 1
    /\ exc' = "none"
    /\ pc' = "squery"
    /\ UNCHANGED <<calls, out, cluster, bucket, collection, result,
                   search_result, mutation_result, mutation_state, rowpos,
                   binding, reads, hitCount, failed, total_rows_type>>

\* Lines 67-68: except CouchbaseException: logging.error(...).  Anything
\* else leaves the method.
SimpleExcept ==
    /\ pc = "simple_except"
    /\ IF exc = "CouchbaseException"
       THEN /\ logged' = logged + 1
            /\ exc' = "none"
            /\ pc' = "squery"
       ELSE /\ pc' = "raised"
            /\ UNCHANGED <<logged, exc>>
    /\ UNCHANGED <<calls, out, cluster, bucket, collection, result,
                   search_result, mutation_result, mutation_state, rowpos,
                   binding, reads, hitCount, failed, total_rows_type>>

(***************************************************************************)
(* tag::squery, lines 149-156.                                             *)
(***************************************************************************)
SqueryQuery ==
    /\ pc = "squery"
    /\ search_query("squery", "my-index-name", "PrefixQuery:airports-",
                    SqueryOptions, "result", {"cluster"}, "squery_rows", "raised")

SqueryRow ==
    /\ pc = "squery_rows"
    /\ reads' = reads \cup ReadsOf("squery", {"result"})
    /\ \/ /\ rowpos < Len(result.rows)
          /\ calls' = Append(calls, Plain("rows_next", "result", "squery", "ok"))
          /\ rowpos' = rowpos + 1
          /\ out' = out \o <<[site |-> "squery", text |-> "Score"],
                             [site |-> "squery", text |-> "Document Id"],
                             [site |-> "squery", text |-> "fields"]>>
          /\ UNCHANGED <<pc, exc>>
       \/ /\ rowpos = Len(result.rows)
          /\ calls' = Append(calls, Plain("rows_next", "result", "squery", "stop"))
          /\ pc' = "limit"
          /\ UNCHANGED <<rowpos, out, exc>>
       \/ \E e \in Raises :
          /\ calls' = Append(calls, Plain("rows_next", "result", "squery", e))
          /\ pc' = "raised"
          /\ exc' = e
          /\ UNCHANGED <<rowpos, out>>
    /\ UNCHANGED <<logged, cluster, bucket, collection, result, search_result,
                   mutation_result, mutation_state, binding, hitCount,
                   failed, total_rows_type>>

(***************************************************************************)
(* tag::limit, lines 168-172.                                              *)
(***************************************************************************)
LimitQuery ==
    /\ pc = "limit"
    /\ search_query("limit", "index", "QueryStringQuery:query", LimitOptions,
                    "result", {"cluster"}, "ryow_upsert", "raised")

(***************************************************************************)
(* tag::ryow, lines 194-200.                                               *)
(***************************************************************************)
RyowUpsert ==
    /\ pc = "ryow_upsert"
    /\ reads' = reads \cup ReadsOf("ryow", {"collection"})
    /\ \E o \in Outcomes, t \in Tokens :
        /\ calls' = Append(calls, Plain("upsert", "collection", "ryow", o))
        /\ IF o = "ok"
           THEN /\ mutation_result' = <<t>>
                /\ binding' = [binding EXCEPT !["mutation_result"] = "ryow"]
                /\ pc' = "ryow_state"
                /\ exc' = exc
           ELSE /\ UNCHANGED <<mutation_result, binding>>
                /\ pc' = "raised"
                /\ exc' = o
    /\ UNCHANGED <<out, logged, cluster, bucket, collection, result,
                   search_result, mutation_state, rowpos, hitCount,
                   failed, total_rows_type>>

\* Variant of RyowState that builds the MutationState and adds nothing to it.
RyowStateWithoutResult ==
    /\ pc = "ryow_state"
    /\ reads' = reads \cup ReadsOf("ryow", {"mutation_result"})
    /\ mutation_state' = <<{}>>
    /\ binding' = [binding EXCEPT !["mutation_state"] = "ryow"]
    /\ pc' = "ryow_query"
    /\ UNCHANGED <<exc, calls, out, logged, cluster, bucket, collection, result,
                   search_result, mutation_result, rowpos, hitCount, failed,
                   total_rows_type>>

\* Line 195: MutationState().add_results(mutation_result), a local
\* construction that calls nothing outside the process.
RyowState ==
    /\ pc = "ryow_state"
    /\ reads' = reads \cup ReadsOf("ryow", {"mutation_result"})
    /\ mutation_state' = <<{} \cup {mutation_result[1]}>>
    /\ binding' = [binding EXCEPT !["mutation_state"] = "ryow"]
    /\ pc' = "ryow_query"
    /\ UNCHANGED <<exc, calls, out, logged, cluster, bucket, collection, result,
                   search_result, mutation_result, rowpos, hitCount,
                   failed, total_rows_type>>

RyowQuery ==
    /\ pc = "ryow_query"
    /\ search_query("ryow", "index", "QueryStringQuery:query",
                    RyowOptions(mutation_state[1]), "search_result",
                    {"cluster", "mutation_state"}, "highlight", "raised")

(***************************************************************************)
(* tag::highlight, tag::sort, tag::facets, tag::fields.                    *)
(***************************************************************************)
HighlightQuery ==
    /\ pc = "highlight"
    /\ search_query("highlight", "index", "QueryStringQuery:query",
                    HighlightOptions, "result", {"cluster"}, "sort", "raised")

SortQuery ==
    /\ pc = "sort"
    /\ search_query("sort", "index", "QueryStringQuery:query", SortOptions,
                    "result", {"cluster"}, "facets", "raised")

FacetsQuery ==
    /\ pc = "facets"
    /\ search_query("facets", "index", "QueryStringQuery:query", FacetsOptions,
                    "result", {"cluster"}, "fields", "raised")

\* Variant of FieldsQuery that assigns its response to search_result.
FieldsQueryIntoSearchResult ==
    /\ pc = "fields"
    /\ search_query("fields", "index", "QueryStringQuery:query", FieldsOptions,
                    "search_result", {"cluster"}, "simpleresult", "raised")

FieldsQuery ==
    /\ pc = "fields"
    /\ search_query("fields", "index", "QueryStringQuery:query", FieldsOptions,
                    "result", {"cluster"}, "simpleresult", "raised")

(***************************************************************************)
(* tag::simpleresult and tag::simplefacetresult, lines 308-322: the loops  *)
(* only assign locals, so each is one call and its iteration.              *)
(***************************************************************************)
SimpleResult ==
    /\ pc = "simpleresult"
    /\ reads' = reads \cup ReadsOf("simpleresult", {"result"})
    /\ \E o \in Outcomes :
        /\ calls' = Append(calls, Plain("hits", "result", "simpleresult", o))
        /\ IF o = "ok"
           THEN /\ rowpos' = Len(result.rows)
                /\ pc' = "simplefacetresult"
                /\ exc' = exc
           ELSE /\ rowpos' = rowpos
                /\ pc' = "raised"
                /\ exc' = o
    /\ UNCHANGED <<out, logged, cluster, bucket, collection, result,
                   search_result, mutation_result, mutation_state, binding,
                   hitCount, failed, total_rows_type>>

SimpleFacetResult ==
    /\ pc = "simplefacetresult"
    /\ reads' = reads \cup ReadsOf("simplefacetresult", {"result"})
    /\ \E o \in Outcomes :
        /\ calls' = Append(calls, Plain("facets", "result", "simplefacetresult", o))
        /\ IF o = "ok"
           THEN /\ pc' = "done"
                /\ exc' = exc
           ELSE /\ pc' = "raised"
                /\ exc' = o
    /\ UNCHANGED <<out, logged, cluster, bucket, collection, result,
                   search_result, mutation_result, mutation_state, rowpos,
                   binding, hitCount, failed, total_rows_type>>

Next ==
    \/ Connect
    \/ Bucket
    \/ DefaultCollection
    \/ SimpleQuery
    \/ SimpleRow
    \/ SimpleTotal
    \/ SimpleExcept
    \/ SqueryQuery
    \/ SqueryRow
    \/ LimitQuery
    \/ RyowUpsert
    \/ RyowState
    \/ RyowQuery
    \/ HighlightQuery
    \/ SortQuery
    \/ FacetsQuery
    \/ FieldsQuery
    \/ SimpleResult
    \/ SimpleFacetResult

Spec == Init /\ [][Next]_vars

(***************************************************************************)
(* Vocabulary of the properties.                                           *)
(***************************************************************************)
InSimple == pc \in {"simple", "simple_rows", "simple_total", "simple_except"}

Finished == pc \in {"done", "raised"}

\* The calls that leave the process for the cluster.
MainOps == {"connect", "bucket", "default_collection", "search_query", "upsert",
            "hits", "facets"}

MainCalls == SelectSeq(calls, LAMBDA c : c.op \in MainOps)

Raised(c) == c.outcome \in Raises

\* A CouchbaseException raised by a call made inside the try block.
CaughtAt(i) == calls[i].site = "simple" /\ calls[i].outcome = "CouchbaseException"

IsSquerySearch(c) ==
    /\ c.op = "search_query"
    /\ c.site = "squery"
    /\ c.index = "my-index-name"

\* C1: a CouchbaseException raised in the try block of the 'simple' snippet
\* (by the search, by the row iteration or by the metadata read) is caught,
\* is logged exactly once, does not leave the method, and the next call the
\* method issues is the 'squery' search on "my-index-name".
C1_CaughtLoggedOnceThenSquery ==
    /\ logged = Cardinality({i \in DOMAIN calls : CaughtAt(i)}) \/ pc = "simple_except"
    /\ logged <= 1
    /\ \A i \in DOMAIN calls :
          CaughtAt(i) =>
             IF pc = "simple_except"
             THEN i = Len(calls) /\ logged = 0 /\ exc = "CouchbaseException"
             ELSE /\ logged = 1
                  /\ i = Len(calls) => (pc = "squery" /\ exc = "none")
                  /\ i < Len(calls) => IsSquerySearch(calls[i + 1])

C1_Witness ==
    /\ logged = 1
    /\ \E i \in DOMAIN calls :
          /\ CaughtAt(i)
          /\ calls[i].op = "total_rows"
          /\ i < Len(calls)
          /\ IsSquerySearch(calls[i + 1])

\* C2 (as stated): no snippet reads a local that another snippet assigned,
\* the connection objects cluster, bucket and collection apart.
C2_EverySnippetSelfContained ==
    \A r \in reads :
        \/ r.var \in {"cluster", "bucket", "collection"}
        \/ r.producer = r.reader

\* C2 (amended): the only reads of a local assigned by another snippet are
\* those of `result` by 'simpleresult' and 'simplefacetresult', and the
\* value they read is the one the 'fields' snippet assigned; no local is
\* read before it is assigned.
C2_OnlyResultLoopsBorrowFromFields ==
    \A r \in reads :
        /\ r.producer # "unbound"
        /\ \/ r.var \in {"cluster", "bucket", "collection"} /\ r.producer = "setup"
           \/ r.producer = r.reader
           \/ /\ r.reader \in {"simpleresult", "simplefacetresult"}
              /\ r.var = "result"
              /\ r.producer = "fields"

C2_Witness ==
    /\ pc = "done"
    /\ [reader |-> "simpleresult", var |-> "result", producer |-> "fields"] \in reads
    /\ [reader |-> "simplefacetresult", var |-> "result", producer |-> "fields"] \in reads

\* C3: the search carrying consistent_with is issued only after the upsert
\* has returned and its result is in mutation_state: the external call just
\* before it is the successful upsert, the state it carries holds exactly
\* the token of that upsert, and when the upsert raises no search carrying
\* a mutation state is ever issued.
C3_ReadYourOwnWrite ==
    /\ \A i \in DOMAIN calls :
          calls[i].opts.consistent_with # <<>> =>
             /\ calls[i].op = "search_query" /\ calls[i].site = "ryow"
             /\ i > 1
             /\ calls[i - 1].op = "upsert" /\ calls[i - 1].outcome = "ok"
             /\ mutation_result # <<>>
             /\ calls[i].opts.consistent_with = <<{mutation_result[1]}>>
             /\ Cardinality(calls[i].opts.consistent_with[1]) = 1
    /\ \A i \in DOMAIN calls :
          (calls[i].op = "search_query" /\ calls[i].site = "ryow")
             => calls[i].opts.consistent_with # <<>>
    /\ \A i \in DOMAIN calls :
          (calls[i].op = "upsert" /\ Raised(calls[i])) =>
             /\ i = Len(calls)
             /\ \A j \in DOMAIN calls : calls[j].opts.consistent_with = <<>>

C3_Witness ==
    \E i \in DOMAIN calls :
        /\ calls[i].site = "ryow" /\ calls[i].op = "search_query"
        /\ calls[i].outcome = "ok"
        /\ calls[i].opts.consistent_with = <<{[key |-> "key", seq |-> MaxSeq]}>>

\* C4: every search_query is issued on the cluster object, after
\* Cluster.connect has returned and after cluster.bucket has returned.
C4_ConnectedAndBucketOpenBeforeSearch ==
    \A i \in DOMAIN calls :
        calls[i].op = "search_query" =>
           /\ calls[i].recv = "cluster"
           /\ cluster = "connected"
           /\ bucket = "travel-sample"
           /\ \E j \in 1 .. i - 1, k \in 1 .. i - 1 :
                 /\ j < k
                 /\ calls[j].op = "connect" /\ calls[j].outcome = "ok"
                 /\ calls[k].op = "bucket" /\ calls[k].outcome = "ok"

C4_Witness ==
    /\ Len(calls) >= 4
    /\ calls[4].op = "search_query"
    /\ calls[Len(calls)].op = "search_query" /\ calls[Len(calls)].site = "fields"

\* The hits the service has for the queries on "index" while the partitions
\* in `failed` are missing, in order, with neither skip nor limit applied.
FullHits == Surviving(IndexHits("index"), failed)

NoSimpleCallRaised == \A i \in DOMAIN calls : calls[i].site = "simple" => ~Raised(calls[i])

C7_NoRetry ==
    /\ \A i, j \in DOMAIN calls :
          (/\ i < j
           /\ calls[i].op \in {"search_query", "upsert"}
           /\ calls[i].op = calls[j].op)
             => calls[i].site # calls[j].site
    /\ \A i, j \in DOMAIN calls :
          (i < j /\ Raised(calls[i])) =>
             ~(calls[j].op = calls[i].op /\ calls[j].site = calls[i].site)

C7_Witness ==
    /\ pc = "done"
    /\ logged = 1
    /\ calls[4].op = "search_query" /\ calls[4].site = "simple"
    /\ calls[4].outcome = "CouchbaseException"

\* The external calls of a run in which nothing raises, in document order.
DocumentOrder ==
    <<[op |-> "connect", site |-> "setup", recv |-> "Cluster"],
      [op |-> "bucket", site |-> "setup", recv |-> "cluster"],
      [op |-> "default_collection", site |-> "setup", recv |-> "bucket"],
      [op |-> "search_query", site |-> "simple", recv |-> "cluster"],
      [op |-> "search_query", site |-> "squery", recv |-> "cluster"],
      [op |-> "search_query", site |-> "limit", recv |-> "cluster"],
      [op |-> "upsert", site |-> "ryow", recv |-> "collection"],
      [op |-> "search_query", site |-> "ryow", recv |-> "cluster"],
      [op |-> "search_query", site |-> "highlight", recv |-> "cluster"],
      [op |-> "search_query", site |-> "sort", recv |-> "cluster"],
      [op |-> "search_query", site |-> "facets", recv |-> "cluster"],
      [op |-> "search_query", site |-> "fields", recv |-> "cluster"],
      [op |-> "hits", site |-> "simpleresult", recv |-> "result"],
      [op |-> "facets", site |-> "simplefacetresult", recv |-> "result"]>>

\* C8: a run of the method in which no external call raises issues connect,
\* bucket, default_collection, the searches of 'simple', 'squery' (index
\* "my-index-name", PrefixQuery, fields) and 'limit' (skip=3, limit=4), the
\* upsert, then the searches of 'ryow', 'highlight', 'sort', 'facets' and
\* 'fields', and only then iterates hits and facets: eight searches and one
\* upsert, in this order.
C8_DocumentOrderWhenNothingRaises ==
    (Finished /\ \A i \in DOMAIN calls : ~Raised(calls[i])) =>
        /\ Len(MainCalls) = Len(DocumentOrder)
        /\ \A i \in DOMAIN MainCalls :
              /\ MainCalls[i].op = DocumentOrder[i].op
              /\ MainCalls[i].site = DocumentOrder[i].site
              /\ MainCalls[i].recv = DocumentOrder[i].recv
        /\ MainCalls[5].index = "my-index-name"
        /\ MainCalls[5].query = "PrefixQuery:airports-"
        /\ MainCalls[5].opts.fields = <<"field-1">>
        /\ MainCalls[6].opts.skip = 3 /\ MainCalls[6].opts.limit = 4
        /\ Cardinality({i \in DOMAIN calls : calls[i].op = "search_query"}) = 8
        /\ Cardinality({i \in DOMAIN calls : calls[i].op = "upsert"}) = 1

\* C9: an exception raised outside the try block, or raised inside it and
\* not a CouchbaseException, is not caught and not logged: it leaves the
\* method, and no external call is issued after the one that raised.
C9_OnlySimpleIsProtected ==
    /\ \A i \in DOMAIN calls :
          (Raised(calls[i]) /\ ~CaughtAt(i)) =>
             /\ i = Len(calls)
             /\ exc = calls[i].outcome
             /\ pc = "raised" \/ (pc = "simple_except" /\ calls[i].site = "simple")
             /\ logged = Cardinality({j \in 1 .. i - 1 : CaughtAt(j)})
    /\ (exc # "none" /\ pc # "simple_except") => pc = "raised"
    /\ pc = "raised" => exc # "none"

C9_Witness ==
    /\ pc = "raised"
    /\ exc = "CouchbaseException"
    /\ calls[Len(calls)].op = "upsert"
    /\ logged = 0

C9_WitnessInsideTry ==
    /\ pc = "raised"
    /\ exc = "Other"
    /\ calls[Len(calls)].op = "rows_next" /\ calls[Len(calls)].site = "simple"

SimpleOut == SelectSeq(out, LAMBDA o : o.site = "simple")

\* k times 'Found row' immediately followed by 'Reported total rows'.
Pairs(k) ==
    [i \in 1 .. 2 * k |->
        [site |-> "simple",
         text |-> IF i % 2 = 1 THEN "Found row" ELSE "Reported total rows"]]

TotalReads == Cardinality({i \in DOMAIN calls : calls[i].op = "total_rows"})

RowsDelivered ==
    Cardinality({i \in DOMAIN calls :
                    /\ calls[i].op = "rows_next" /\ calls[i].site = "simple"
                    /\ calls[i].outcome = "ok"})

\* C10: once the 'simple' snippet is over, a result of n rows delivered
\* without exception has had its total read n times and has produced n
\* 'Found row' outputs each immediately followed by one total-rows report
\* (none, and no read, for n = 0); and when the row stream raised a
\* CouchbaseException after k rows, exactly k such pairs were produced.
C10_OneReportPerRow ==
    (~InSimple /\ \E i \in DOMAIN calls : calls[i].site = "simple") =>
        /\ NoSimpleCallRaised =>
              /\ RowsDelivered = Len(FullHits)
              /\ TotalReads = Len(FullHits)
              /\ SimpleOut = Pairs(Len(FullHits))
        /\ (\E i \in DOMAIN calls :
               CaughtAt(i) /\ calls[i].op = "rows_next") =>
              SimpleOut = Pairs(RowsDelivered)

====
